---- MODULE Spec2Model ----
(***************************************************************************)
(* A model of background.js, the service worker of the tab manager: the    *)
(* click listener and its three stages (mergeAllWindows,                   *)
(* removeDuplicateTabs, groupTabsByDomain), the domain extraction          *)
(* (getDomainName, capitalizeFirstLetter) and the part of the browser the  *)
(* stages talk to (windows, tabs, tab groups, requests in flight).         *)
(*                                                                         *)
(* Every chrome.* call is a request put in flight; the browser answers an  *)
(* awaited request by running its callback (with or without               *)
(* chrome.runtime.lastError), and handles a request made without callback  *)
(* (chrome.tabs.remove in removeDuplicateTabs) at any later moment.        *)
(***************************************************************************)
EXTENDS Integers, Sequences, FiniteSets, TLC

\* Bounds of the model: the tabs and windows open at the start, the tabs
\* when removeDuplicateTabs is studied alone, the invocations in a row, the
\* labels of a hostname when getDomainName is studied alone.
MaxTabs == 3
MaxDedupTabs == 4
MaxWindows == 2
MaxRuns == 2
MaxLabels == 4

WinIds == 1..MaxWindows

\* ------------------------------------------------------------------------
\* JavaScript values: a string is the sequence of its characters.

Undefined == [t |-> "undefined", s |-> <<>>]

Str(chars) == [t |-> "string", s |-> chars]

\* A tab's url: undefined (the extension may not read it) or a string, kept
\* as the parts the code looks at: the scheme, the hostname's labels, the rest.
UndefinedUrl == [t |-> "undefined", scheme |-> "", host |-> <<>>, path |-> ""]

Url(scheme, host, path) == [t |-> "string", scheme |-> scheme, host |-> host, path |-> path]

\* 'chrome://newtab/'
NewTabUrl == Url("chrome", << <<"n","e","w","t","a","b">> >>, "/")

ExampleLabel == <<"e","x","a","m","p","l","e">>

\* 'https://example.com/a' and 'https://mail.example.com/b'
ExampleUrl == Url("https", <<ExampleLabel, <<"c","o","m">> >>, "/a")

MailExampleUrl == Url("https", << <<"m","a","i","l">>, ExampleLabel, <<"c","o","m">> >>, "/b")

\* The urls the tabs of the model are at.
TabUrls == {NewTabUrl, ExampleUrl, MailExampleUrl, UndefinedUrl}

\* ------------------------------------------------------------------------
\* Sequences.

Range(s) == {s[i] : i \in 1..Len(s)}

RECURSIVE Flatten(_)
Flatten(ss) == IF ss = <<>> THEN <<>> ELSE Head(ss) \o Flatten(Tail(ss))

RECURSIVE Without(_, _)
Without(s, S) ==
    IF s = <<>> THEN <<>>
    ELSE IF Head(s) \in S THEN Without(Tail(s), S)
    ELSE <<Head(s)>> \o Without(Tail(s), S)

RECURSIVE JoinDots(_)
JoinDots(labels) ==
    IF labels = <<>> THEN <<>>
    ELSE IF Len(labels) = 1 THEN Head(labels)
    ELSE Head(labels) \o <<".">> \o JoinDots(Tail(labels))

\* ------------------------------------------------------------------------
\* capitalizeFirstLetter and getDomainName.

Digits == {"0","1","2","3","4","5","6","7","8","9"}

ToUpperCase(c) ==
    CASE c = "a" -> "A" [] c = "b" -> "B" [] c = "c" -> "C" [] c = "d" -> "D"
      [] c = "e" -> "E" [] c = "f" -> "F" [] c = "g" -> "G" [] c = "h" -> "H"
      [] c = "i" -> "I" [] c = "j" -> "J" [] c = "k" -> "K" [] c = "l" -> "L"
      [] c = "m" -> "M" [] c = "n" -> "N" [] c = "o" -> "O" [] c = "p" -> "P"
      [] c = "q" -> "Q" [] c = "r" -> "R" [] c = "s" -> "S" [] c = "t" -> "T"
      [] c = "u" -> "U" [] c = "v" -> "V" [] c = "w" -> "W" [] c = "x" -> "X"
      [] c = "y" -> "Y" [] c = "z" -> "Z" [] OTHER -> c

\* string.charAt(0).toUpperCase() + string.slice(1); a value without charAt
\* (undefined) throws inside the try and is returned as it came.
capitalizeFirstLetter(string) ==
    IF string.t # "string" THEN string
    ELSE IF string.s = <<>> THEN string
    ELSE Str(<<ToUpperCase(Head(string.s))>> \o Tail(string.s))

Returned(v) == [thrown |-> FALSE, value |-> v]

Thrown == [thrown |-> TRUE, value |-> Undefined]

\* new URL(url) throws on a string without a scheme.
Parses(url) == url.scheme # ""

\* /^\d{1,3}(\.\d{1,3}){3}$/.test(hostname)
IsDottedQuad(host) ==
    /\ Len(host) = 4
    /\ \A i \in 1..4 : Len(host[i]) \in 1..3 /\ Range(host[i]) \subseteq Digits

secondLevelDomains ==
    { <<"c","o">>, <<"c","o","m">>, <<"g","o","v">>, <<"n","e","t">>,
      <<"e","d","u">>, <<"o","r","g">> }

\* parts[parts.length - k]: undefined outside the array.
PartFromEnd(parts, k) ==
    IF k >= 1 /\ k <= Len(parts) THEN Str(parts[Len(parts) - k + 1]) ELSE Undefined

\* url.startsWith('chrome://')
StartsWithChrome(url) == url.scheme = "chrome"

ChromeLabel == <<"C","h","r","o","m","e">>

getDomainName(url) ==
    IF url.t # "string" THEN Thrown
    ELSE IF StartsWithChrome(url) THEN Returned(Str(ChromeLabel))
    ELSE IF ~Parses(url) THEN Thrown
    ELSE IF IsDottedQuad(url.host) THEN Returned(Str(JoinDots(url.host)))
    ELSE LET parts == IF url.host = <<>> THEN << <<>> >> ELSE url.host
             second == PartFromEnd(parts, 2)
         IN  Returned(capitalizeFirstLetter(
                 IF second.t = "string" /\ second.s \in secondLevelDomains
                 THEN PartFromEnd(parts, 3)
                 ELSE second))

\* 'file:///x': a url that parses, with the empty hostname.
FileUrl == Url("file", <<>>, "/x")

\* The urls getDomainName is called with when it is studied alone: undefined,
\* 'file:///x', and the strings with or without a scheme ('https://...',
\* 'chrome://...', no scheme at all) and any hostname of up to MaxLabels of
\* these labels.
DomainLabels ==
    { ExampleLabel, <<"m","a","i","l">>, <<"c","o">>, <<"c","o","m">>, <<"u","k">>,
      <<"l","o","c","a","l","h","o","s","t">>, <<"1","0">> }

Hostnames == UNION {[1..k -> DomainLabels] : k \in 1..MaxLabels}

DomainUrls ==
    {UndefinedUrl, FileUrl} \cup {Url(scheme, host, "/") : scheme \in {"https", "chrome", ""},
                                                           host \in Hostnames}

\* The property name a value becomes when it is used as an object key.
PropertyKey(v) ==
    IF v.t = "undefined" THEN <<"u","n","d","e","f","i","n","e","d">> ELSE v.s

\* ------------------------------------------------------------------------
\* tabsByDomain: the buckets in insertion order, and the order for...in
\* visits them in (array-index keys ascending, then the others as inserted).

DigitValue(c) ==
    CASE c = "0" -> 0 [] c = "1" -> 1 [] c = "2" -> 2 [] c = "3" -> 3
      [] c = "4" -> 4 [] c = "5" -> 5 [] c = "6" -> 6 [] c = "7" -> 7
      [] c = "8" -> 8 [] OTHER -> 9

\* Digit strings as numbers: the shorter is the smaller, equal lengths
\* compare digit by digit.
RECURSIVE DigitsLess(_, _)
DigitsLess(a, b) ==
    IF Len(a) # Len(b) THEN Len(a) < Len(b)
    ELSE IF a = <<>> THEN FALSE
    ELSE IF Head(a) # Head(b) THEN DigitValue(Head(a)) < DigitValue(Head(b))
    ELSE DigitsLess(Tail(a), Tail(b))

\* 2^32 - 1, the first number that is not an array index.
NotAnIndex == <<"4","2","9","4","9","6","7","2","9","5">>

IsArrayIndex(key) ==
    /\ key # <<>>
    /\ Range(key) \subseteq Digits
    /\ (Len(key) = 1 \/ Head(key) # "0")
    /\ DigitsLess(key, NotAnIndex)

RECURSIVE AddToBucket(_, _, _)
AddToBucket(bs, key, tab) ==
    IF bs = <<>> THEN << [key |-> key, tabs |-> <<tab>>] >>
    ELSE IF Head(bs).key = key
         THEN << [key |-> key, tabs |-> Append(Head(bs).tabs, tab)] >> \o Tail(bs)
         ELSE <<Head(bs)>> \o AddToBucket(Tail(bs), key, tab)

RECURSIVE SortByIndex(_)
SortByIndex(bs) ==
    IF bs = <<>> THEN <<>>
    ELSE LET least == CHOOSE i \in 1..Len(bs) :
                          \A j \in 1..Len(bs) : ~DigitsLess(bs[j].key, bs[i].key)
         IN  <<bs[least]>> \o SortByIndex(SubSeq(bs, 1, least - 1) \o SubSeq(bs, least + 1, Len(bs)))

RECURSIVE Indexed(_, _)
Indexed(bs, wanted) ==
    IF bs = <<>> THEN <<>>
    ELSE IF IsArrayIndex(Head(bs).key) = wanted
         THEN <<Head(bs)>> \o Indexed(Tail(bs), wanted)
         ELSE Indexed(Tail(bs), wanted)

ForIn(bs) == SortByIndex(Indexed(bs, TRUE)) \o Indexed(bs, FALSE)

\* ------------------------------------------------------------------------
\* State.

VARIABLES
    wins,       \* browser: window id -> its tabs in tab order (<<>>: no such window)
    focused,    \* browser: the current window (0: none)
    url,        \* browser: tab id -> url
    groupOf,    \* browser: tab id -> its group (0: none)
    title,      \* browser: group id -> title, for the groups that exist
    nextGid,    \* browser: the next group id
    inflight,   \* requests made and not yet handled by the browser
    entry,      \* what was invoked last: "none", "click", "dedup", "group"
    stage,      \* the click listener: "idle", "merge", "dedup", "group", "done", "caught"
    pc,         \* the callback the running function waits for ("none": not waiting)
    mres,       \* mergeAllWindows' promise: "none", "pending", "resolved", "rejected"
    dres,       \* removeDuplicateTabs' promise
    gres,       \* groupTabsByDomain's promise
    cur,        \* currentWindow.id (merge), windows.id (group)
    queue,      \* merge: the tabs the two loops have still to move
    buckets,    \* group: the tabsByDomain entries the loop has still to visit
    gid,        \* group: groupId
    log,        \* console.error calls: who logged
    unhandled,  \* a promise was rejected with nothing to handle it
    runs,       \* invocations so far
    hostErr,    \* some request ended with chrome.runtime.lastError set
    moveErr,    \* in this run, a tabs.move ended with an error
    rmFailed,   \* in this run, the tabs.remove request failed
    marked,     \* in this run, the tabs removeDuplicateTabs asked to remove
    dRead,      \* in this run, what removeDuplicateTabs read: the windows and all
                \* their tabs, then the window it scanned and that window's tabs
    grouped,    \* in this run, the tabs groupTabsByDomain put in buckets
    gErr,       \* in this run, groupTabsByDomain caught an error
    prev,       \* the invocation before this one, and the windows it started from
    snap,       \* the windows, the current window, the groups and their titles when
                \* this run started
    domainCall  \* getDomainName called on its own: done or not, and what came out

browser == <<wins, focused, groupOf, title, nextGid>>

locals == <<cur, queue, buckets, gid>>

results == <<mres, dres, gres>>

ghosts == <<moveErr, rmFailed, marked, dRead, grouped, gErr>>

vars == <<wins, focused, url, groupOf, title, nextGid, inflight, entry, stage, pc,
          mres, dres, gres, cur, queue, buckets, gid, log, unhandled, runs,
          hostErr, moveErr, rmFailed, marked, dRead, grouped, gErr, prev, snap,
          domainCall>>

\* ------------------------------------------------------------------------
\* The browser.

Tabs == UNION {Range(wins[w]) : w \in WinIds}

\* chrome.windows.getAll({populate: true}): the windows, by id.
RECURSIVE WindowsFrom(_)
WindowsFrom(w) ==
    IF w > MaxWindows THEN <<>>
    ELSE IF wins[w] # <<>> THEN <<w>> \o WindowsFrom(w + 1)
    ELSE WindowsFrom(w + 1)

AllWindows == WindowsFrom(1)

Req(op, tabs, win, group, key) ==
    [op |-> op, tabs |-> tabs, win |-> win, gid |-> group, key |-> key]

GetCurrent == Req("getCurrent", <<>>, 0, 0, <<>>)

GetAll == Req("getAll", <<>>, 0, 0, <<>>)

Awaited == {r \in inflight : r.op # "remove"}

\* The groups that exist are those with a tab.
Groups(g) == {x \in Range(g) : x # 0}

Members(group) == {t \in Tabs : groupOf[t] = group}

\* The windows once the tabs of S are gone, and the group map with it.
WinsWithout(S) == [w \in WinIds |-> Without(wins[w], S)]

\* A window that lost its last tab is closed; when it was the current
\* window, another window is.
FocusAfter(newWins) ==
    IF focused # 0 /\ newWins[focused] # <<>> THEN {focused}
    ELSE IF \E w \in WinIds : newWins[w] # <<>>
         THEN {w \in WinIds : newWins[w] # <<>>}
         ELSE {0}

\* The titles left once only the groups of g exist.
TitlesOf(g, t) == [x \in Groups(g) |-> IF x \in DOMAIN t THEN t[x] ELSE <<>>]

\* As WinsMoved with index: 0 for index: -1: the tab becomes the first tab.
WinsMovedToFront(tab, target) ==
    [w \in WinIds |-> IF w = target THEN <<tab>> \o Without(wins[w], {tab})
                      ELSE Without(wins[w], {tab})]

\* The browser's tabs.move(tab, {windowId: target, index: -1}): the tab leaves
\* its window and its group and becomes the target's last tab.
WinsMoved(tab, target) ==
    [w \in WinIds |-> IF w = target THEN Append(Without(wins[w], {tab}), tab)
                      ELSE Without(wins[w], {tab})]

\* ------------------------------------------------------------------------
\* What the stages compute.

\* mergeAllWindows' two loops: the tabs of every window but the current
\* one, window by window.
RECURSIVE TabsToMove(_, _)
TabsToMove(windows, currentId) ==
    IF windows = <<>> THEN <<>>
    ELSE IF Head(windows) # currentId
         THEN wins[Head(windows)] \o TabsToMove(Tail(windows), currentId)
         ELSE TabsToMove(Tail(windows), currentId)

\* removeDuplicateTabs: allTabs and newTabTabs.
RECURSIVE AllTabsOf(_)
AllTabsOf(windows) ==
    IF windows = <<>> THEN <<>> ELSE wins[Head(windows)] \o AllTabsOf(Tail(windows))

RECURSIVE NewTabsIn(_)
NewTabsIn(tabs) ==
    IF tabs = <<>> THEN <<>>
    ELSE IF url[Head(tabs)] = NewTabUrl THEN <<Head(tabs)>> \o NewTabsIn(Tail(tabs))
    ELSE NewTabsIn(Tail(tabs))

\* allTabs.length === newTabTabs.length && windows.length === 1
OnlyNewTabs(windows) ==
    /\ Len(AllTabsOf(windows)) = Len(NewTabsIn(AllTabsOf(windows)))
    /\ Len(windows) = 1

\* As TabsToRemove with slice(0) for slice(1): no new tab is spared.
TabsToRemoveAll(newTabTabs) == newTabTabs

\* newTabTabs.slice(1).map(tab => tab.id)
TabsToRemove(newTabTabs) == IF newTabTabs = <<>> THEN <<>> ELSE Tail(newTabTabs)

\* The scan of window.tabs with uniqueUrls and duplicateTabs.
RECURSIVE DuplicateScan(_, _, _, _)
DuplicateScan(tabs, i, uniqueUrls, duplicateTabs) ==
    IF i > Len(tabs) THEN duplicateTabs
    ELSE IF url[tabs[i]] \in uniqueUrls \/ (url[tabs[i]] = NewTabUrl /\ Len(tabs) > 1)
         THEN DuplicateScan(tabs, i + 1, uniqueUrls, Append(duplicateTabs, tabs[i]))
         ELSE DuplicateScan(tabs, i + 1, uniqueUrls \cup {url[tabs[i]]}, duplicateTabs)

\* As DuplicateTabs without the test for new tabs: only a url seen before
\* marks a tab.
RECURSIVE UrlOnlyScan(_, _, _, _)
UrlOnlyScan(tabs, i, uniqueUrls, duplicateTabs) ==
    IF i > Len(tabs) THEN duplicateTabs
    ELSE IF url[tabs[i]] \in uniqueUrls
         THEN UrlOnlyScan(tabs, i + 1, uniqueUrls, Append(duplicateTabs, tabs[i]))
         ELSE UrlOnlyScan(tabs, i + 1, uniqueUrls \cup {url[tabs[i]]}, duplicateTabs)

DuplicateTabsByUrlOnly(tabs) == UrlOnlyScan(tabs, 1, {}, <<>>)

DuplicateTabs(tabs) == DuplicateScan(tabs, 1, {}, <<>>)

\* A scan that would throw for the first tab only.
ScanThrowsAtFirstTab(tabs) == tabs # <<>> /\ getDomainName(url[tabs[1]]).thrown

\* groupTabsByDomain: the scan that fills tabsByDomain; it throws when
\* getDomainName does.
ScanThrows(tabs) == \E i \in 1..Len(tabs) : getDomainName(url[tabs[i]]).thrown

RECURSIVE TabsByDomain(_, _)
TabsByDomain(tabs, bs) ==
    IF tabs = <<>> THEN bs
    ELSE TabsByDomain(Tail(tabs),
             AddToBucket(bs, PropertyKey(getDomainName(url[Head(tabs)]).value), Head(tabs)))

\* ------------------------------------------------------------------------
\* The initial states: up to maxTabs tabs in up to MaxWindows windows, any
\* window current, the tabs of the current window in one group (when
\* pres allows it) or in none.

RECURSIVE TabsOwned(_, _, _)
TabsOwned(own, i, w) ==
    IF i > Len(own) THEN <<>>
    ELSE IF own[i] = w THEN <<i>> \o TabsOwned(own, i + 1, w)
    ELSE TabsOwned(own, i + 1, w)

OldTitle == <<"O","l","d">>

NoCall == [done |-> FALSE, result |-> Thrown]

NoRead == [windows |-> <<>>, all |-> <<>>, tabs |-> <<>>, win |-> 0, scanned |-> FALSE]

InitWith(maxTabs, pres) ==
    \E n \in 1..maxTabs :
    \E own \in [1..n -> WinIds] :
    \E u \in [1..n -> TabUrls] :
    \E f \in WinIds :
    \E pre \in pres :
        /\ own[1] = 1
        /\ \A i \in 1..(n - 1) : own[i + 1] \in {own[i], own[i] + 1}
        /\ f \in Range(own)
        /\ wins = [w \in WinIds |-> TabsOwned(own, 1, w)]
        /\ focused = f
        /\ url = u
        /\ groupOf = [t \in 1..n |-> IF pre /\ own[t] = f THEN 1 ELSE 0]
        /\ title = [x \in (IF pre THEN {1} ELSE {}) |-> OldTitle]
        /\ nextGid = 2
        /\ inflight = {}
        /\ entry = "none"
        /\ stage = "idle"
        /\ pc = "none"
        /\ mres = "none" /\ dres = "none" /\ gres = "none"
        /\ cur = 0 /\ queue = <<>> /\ buckets = <<>> /\ gid = 0
        /\ log = {}
        /\ unhandled = FALSE
        /\ runs = 0
        /\ hostErr = FALSE
        /\ moveErr = FALSE /\ rmFailed = FALSE /\ marked = {}
        /\ dRead = NoRead
        /\ grouped = {} /\ gErr = FALSE
        /\ prev = "none"
        /\ snap = [wins |-> [w \in WinIds |-> TabsOwned(own, 1, w)], focused |-> f,
                   groups |-> [t \in 1..n |-> IF pre /\ own[t] = f THEN 1 ELSE 0],
                   titles |-> [x \in (IF pre THEN {1} ELSE {}) |-> OldTitle]]
        /\ domainCall = NoCall

\* ------------------------------------------------------------------------
\* Invocations. The listener is registered on the action's click; the two
\* later stages are also entered on their own, from any state of the browser.
\* An invocation starts once the browser has handled every earlier request.

Settled(res) == res \in {"resolved", "rejected"}

ListenerWaiting ==
    /\ entry = "click"
    /\ \/ stage = "merge" /\ Settled(mres)
       \/ stage = "dedup" /\ Settled(dres)
       \/ stage = "group" /\ Settled(gres)

Idle == pc = "none" /\ inflight = {} /\ ~ListenerWaiting /\ runs < MaxRuns

Begin(e) ==
    /\ Idle
    /\ entry' = e
    /\ prev' = entry
    /\ runs' = runs + 1
    /\ snap' = [wins |-> wins, focused |-> focused, groups |-> groupOf, titles |-> title]
    /\ cur' = 0 /\ queue' = <<>> /\ buckets' = <<>> /\ gid' = 0
    /\ log' = {}
    /\ unhandled' = FALSE
    /\ moveErr' = FALSE /\ rmFailed' = FALSE /\ marked' = {}
    /\ dRead' = NoRead
    /\ grouped' = {} /\ gErr' = FALSE
    /\ UNCHANGED <<browser, url, hostErr, domainCall>>

\* chrome.action.onClicked: the listener calls mergeAllWindows, which asks
\* for the current window.
Click ==
    /\ Begin("click")
    /\ stage' = "merge"
    /\ mres' = "pending" /\ dres' = "none" /\ gres' = "none"
    /\ pc' = "m_getCurrent"
    /\ inflight' = {GetCurrent}

InvokeRemoveDuplicateTabs ==
    /\ Begin("dedup")
    /\ stage' = "idle"
    /\ mres' = "none" /\ dres' = "pending" /\ gres' = "none"
    /\ pc' = "d_getAll"
    /\ inflight' = {GetAll}

InvokeGroupTabsByDomain ==
    /\ Begin("group")
    /\ stage' = "idle"
    /\ mres' = "none" /\ dres' = "none" /\ gres' = "pending"
    /\ pc' = "g_getCurrent"
    /\ inflight' = {GetCurrent}

ctl == <<entry, runs, prev, snap, domainCall>>

\* ------------------------------------------------------------------------
\* mergeAllWindows.

\* The loops without the await: every tabs.move is made at once.
MergeLoopWithoutAwait(q, fl) ==
    IF q = <<>>
    THEN /\ mres' = "resolved"
         /\ pc' = "none"
         /\ inflight' = fl
    ELSE /\ mres' = mres
         /\ pc' = "m_move"
         /\ inflight' = fl \cup {Req("move", <<q[i]>>, cur, 0, <<>>) : i \in 1..Len(q)}

\* The loops at the tabs of q: the next tabs.move is made, or resolve().
MergeLoop(q, fl) ==
    IF q = <<>>
    THEN /\ mres' = "resolved"
         /\ pc' = "none"
         /\ inflight' = fl
    ELSE /\ mres' = mres
         /\ pc' = "m_move"
         /\ inflight' = fl \cup {Req("move", <<Head(q)>>, cur, 0, <<>>)}

MergeGetCurrentError ==
    /\ pc = "m_getCurrent" /\ GetCurrent \in inflight
    /\ inflight' = inflight \ {GetCurrent}
    /\ mres' = "rejected"
    /\ pc' = "none"
    /\ hostErr' = TRUE
    /\ UNCHANGED <<browser, url, ctl, stage, dres, gres, locals, log, unhandled, ghosts>>

MergeGetCurrentOk ==
    /\ pc = "m_getCurrent" /\ GetCurrent \in inflight
    /\ cur' = focused
    /\ inflight' = (inflight \ {GetCurrent}) \cup {GetAll}
    /\ pc' = "m_getAll"
    /\ UNCHANGED <<browser, url, ctl, stage, results, queue, buckets, gid, log,
                   unhandled, hostErr, ghosts>>

MergeGetAllError ==
    /\ pc = "m_getAll" /\ GetAll \in inflight
    /\ inflight' = inflight \ {GetAll}
    /\ mres' = "rejected"
    /\ pc' = "none"
    /\ hostErr' = TRUE
    /\ UNCHANGED <<browser, url, ctl, stage, dres, gres, locals, log, unhandled, ghosts>>

MergeGetAllOk ==
    /\ pc = "m_getAll" /\ GetAll \in inflight
    /\ queue' = TabsToMove(AllWindows, cur)
    /\ MergeLoop(TabsToMove(AllWindows, cur), inflight \ {GetAll})
    /\ UNCHANGED <<browser, url, ctl, stage, dres, gres, cur, buckets, gid, log,
                   unhandled, hostErr, ghosts>>

\* A move callback that skips the tab on an error and goes on with the next.
MergeMoveErrorGoesOn ==
    /\ pc = "m_move"
    /\ \E r \in inflight :
        /\ r.op = "move"
        /\ queue' = Tail(queue)
        /\ MergeLoop(Tail(queue), inflight \ {r})
    /\ hostErr' = TRUE
    /\ moveErr' = TRUE
    /\ UNCHANGED <<browser, url, ctl, stage, dres, gres, cur, buckets, gid, log, unhandled,
                   rmFailed, marked, dRead, grouped, gErr>>

\* The inner promise is rejected inside the async callback, whose own promise
\* nobody holds: mergeAllWindows' promise is neither resolved nor rejected.
MergeMoveError ==
    /\ pc = "m_move"
    /\ \E r \in inflight :
        /\ r.op = "move"
        /\ inflight' = inflight \ {r}
    /\ pc' = "none"
    /\ unhandled' = TRUE
    /\ hostErr' = TRUE
    /\ moveErr' = TRUE
    /\ UNCHANGED <<browser, url, ctl, stage, results, locals, log,
                   rmFailed, marked, dRead, grouped, gErr>>

MergeMoveOk ==
    /\ pc = "m_move"
    /\ \E r \in inflight :
        /\ r.op = "move"
        /\ r.tabs[1] \in Tabs
        /\ wins[r.win] # <<>>
        /\ wins' = WinsMoved(r.tabs[1], r.win)
        /\ groupOf' = [t \in DOMAIN groupOf |->
                          IF t = r.tabs[1] /\ t \notin Range(wins[r.win]) THEN 0 ELSE groupOf[t]]
        /\ title' = TitlesOf(groupOf', title)
        /\ focused' \in FocusAfter(wins')
        /\ queue' = Tail(queue)
        /\ MergeLoop(Tail(queue), inflight \ {r})
    /\ UNCHANGED <<nextGid, url, ctl, stage, dres, gres, cur, buckets, gid, log,
                   unhandled, hostErr, ghosts>>

\* ------------------------------------------------------------------------
\* removeDuplicateTabs.

RemoveRequest(tabs) == IF tabs = <<>> THEN {} ELSE {Req("remove", tabs, 0, 0, <<>>)}

DedupGetAllError ==
    /\ pc = "d_getAll" /\ GetAll \in inflight
    /\ inflight' = inflight \ {GetAll}
    /\ dres' = "rejected"
    /\ pc' = "none"
    /\ hostErr' = TRUE
    /\ UNCHANGED <<browser, url, ctl, stage, mres, gres, locals, log, unhandled, ghosts>>

DedupGetAllOk ==
    /\ pc = "d_getAll" /\ GetAll \in inflight
    /\ IF OnlyNewTabs(AllWindows)
       THEN LET tabsToRemove == TabsToRemove(NewTabsIn(AllTabsOf(AllWindows)))
            IN  /\ inflight' = (inflight \ {GetAll}) \cup RemoveRequest(tabsToRemove)
                /\ marked' = Range(tabsToRemove)
                /\ dres' = "resolved"
                /\ pc' = "none"
                /\ dRead' = [dRead EXCEPT !.windows = AllWindows, !.all = AllTabsOf(AllWindows)]
       ELSE /\ inflight' = (inflight \ {GetAll}) \cup {GetCurrent}
            /\ marked' = marked
            /\ dres' = dres
            /\ pc' = "d_getCurrent"
            /\ dRead' = [dRead EXCEPT !.windows = AllWindows, !.all = AllTabsOf(AllWindows)]
    /\ UNCHANGED <<browser, url, ctl, stage, mres, gres, locals, log, unhandled,
                   hostErr, moveErr, rmFailed, grouped, gErr>>

DedupGetCurrentError ==
    /\ pc = "d_getCurrent" /\ GetCurrent \in inflight
    /\ inflight' = inflight \ {GetCurrent}
    /\ dres' = "rejected"
    /\ pc' = "none"
    /\ hostErr' = TRUE
    /\ UNCHANGED <<browser, url, ctl, stage, mres, gres, locals, log, unhandled, ghosts>>

DedupGetCurrentOk ==
    /\ pc = "d_getCurrent" /\ GetCurrent \in inflight
    /\ inflight' = (inflight \ {GetCurrent}) \cup RemoveRequest(DuplicateTabs(wins[focused]))
    /\ marked' = Range(DuplicateTabs(wins[focused]))
    /\ dres' = "resolved"
    /\ pc' = "none"
    /\ dRead' = [dRead EXCEPT !.tabs = wins[focused], !.win = focused, !.scanned = TRUE]
    /\ UNCHANGED <<browser, url, ctl, stage, mres, gres, locals, log, unhandled,
                   hostErr, moveErr, rmFailed, grouped, gErr>>

\* The browser handles a tabs.remove request: the tabs are closed, and with
\* them the windows and groups left empty; or the request fails.
HostRemoveOk ==
    /\ \E r \in inflight :
        /\ r.op = "remove"
        /\ inflight' = inflight \ {r}
        /\ wins' = WinsWithout(Range(r.tabs))
        /\ groupOf' = [t \in DOMAIN groupOf |-> IF t \in Range(r.tabs) THEN 0 ELSE groupOf[t]]
        /\ title' = TitlesOf(groupOf', title)
        /\ focused' \in FocusAfter(wins')
    /\ UNCHANGED <<nextGid, url, ctl, stage, pc, results, locals, log, unhandled,
                   hostErr, ghosts>>

HostRemoveError ==
    /\ \E r \in inflight :
        /\ r.op = "remove"
        /\ inflight' = inflight \ {r}
    /\ rmFailed' = TRUE
    /\ hostErr' = TRUE
    /\ UNCHANGED <<browser, url, ctl, stage, pc, results, locals, log, unhandled,
                   moveErr, marked, dRead, grouped, gErr>>

\* ------------------------------------------------------------------------
\* groupTabsByDomain.

\* As GrouperCatch when the catch block throws the error again.
GrouperRethrow(fl) ==
    /\ gres' = "rejected"
    /\ pc' = "none"
    /\ inflight' = fl
    /\ log' = log \cup {"groupTabsByDomain"}
    /\ gErr' = TRUE

\* catch (error) { console.error(...) }: the function returns normally.
GrouperCatch(fl) ==
    /\ gres' = "resolved"
    /\ pc' = "none"
    /\ inflight' = fl
    /\ log' = log \cup {"groupTabsByDomain"}
    /\ gErr' = TRUE

\* for (let domain in tabsByDomain) at the buckets bs: the request for the
\* first of them is made, or the function returns.
GroupLoop(bs, windowId, fl) ==
    /\ buckets' = bs
    /\ IF bs = <<>>
       THEN /\ gres' = "resolved"
            /\ pc' = "none"
            /\ inflight' = fl
       ELSE IF Len(Head(bs).tabs) > 1
       THEN /\ gres' = gres
            /\ pc' = "g_group"
            /\ inflight' = fl \cup {Req("group", Head(bs).tabs, windowId, 0, <<>>)}
       ELSE /\ gres' = gres
            /\ pc' = "g_ungroup"
            /\ inflight' = fl \cup {Req("ungroup", Head(bs).tabs, 0, 0, <<>>)}

\* The tabs the scan reached before getDomainName threw.
RECURSIVE ScannedTabs(_)
ScannedTabs(tabs) ==
    IF tabs = <<>> \/ getDomainName(url[Head(tabs)]).thrown THEN {}
    ELSE {Head(tabs)} \cup ScannedTabs(Tail(tabs))

GroupGetCurrentError ==
    /\ pc = "g_getCurrent" /\ GetCurrent \in inflight
    /\ GrouperCatch(inflight \ {GetCurrent})
    /\ hostErr' = TRUE
    /\ UNCHANGED <<browser, url, ctl, stage, mres, dres, locals, unhandled,
                   moveErr, rmFailed, marked, dRead, grouped>>

GroupGetCurrentOk ==
    /\ pc = "g_getCurrent" /\ GetCurrent \in inflight
    /\ cur' = focused
    /\ grouped' = ScannedTabs(wins[focused])
    /\ IF ScanThrows(wins[focused])
       THEN /\ GrouperCatch(inflight \ {GetCurrent})
            /\ buckets' = buckets
       ELSE /\ GroupLoop(ForIn(TabsByDomain(wins[focused], <<>>)), focused, inflight \ {GetCurrent})
            /\ log' = log
            /\ gErr' = gErr
    /\ UNCHANGED <<browser, url, ctl, stage, mres, dres, queue, gid, unhandled,
                   hostErr, moveErr, rmFailed, marked, dRead>>

GroupGroupError ==
    /\ pc = "g_group"
    /\ \E r \in inflight :
        /\ r.op = "group"
        /\ GrouperCatch(inflight \ {r})
    /\ hostErr' = TRUE
    /\ UNCHANGED <<browser, url, ctl, stage, mres, dres, locals, unhandled,
                   moveErr, rmFailed, marked, dRead, grouped>>

\* tabs.group: the tabs leave their groups for a new one, without a title yet.
GroupGroupOk ==
    /\ pc = "g_group"
    /\ \E r \in inflight :
        /\ r.op = "group"
        /\ Range(r.tabs) \subseteq Range(wins[r.win])
        /\ groupOf' = [t \in DOMAIN groupOf |-> IF t \in Range(r.tabs) THEN nextGid ELSE groupOf[t]]
        /\ title' = TitlesOf(groupOf', title)
        /\ nextGid' = nextGid + 1
        /\ gid' = nextGid
        /\ pc' = "g_title"
        /\ inflight' = (inflight \ {r}) \cup {Req("update", <<>>, 0, nextGid, Head(buckets).key)}
    /\ UNCHANGED <<wins, focused, url, ctl, stage, results, cur, queue, buckets, log,
                   unhandled, hostErr, ghosts>>

GroupTitleError ==
    /\ pc = "g_title"
    /\ \E r \in inflight :
        /\ r.op = "update"
        /\ GrouperCatch(inflight \ {r})
    /\ hostErr' = TRUE
    /\ UNCHANGED <<browser, url, ctl, stage, mres, dres, locals, unhandled,
                   moveErr, rmFailed, marked, dRead, grouped>>

GroupTitleOk ==
    /\ pc = "g_title"
    /\ \E r \in inflight :
        /\ r.op = "update"
        /\ r.gid \in DOMAIN title
        /\ title' = [title EXCEPT ![r.gid] = r.key]
        /\ GroupLoop(Tail(buckets), cur, inflight \ {r})
    /\ UNCHANGED <<wins, focused, groupOf, nextGid, url, ctl, stage, mres, dres, cur,
                   queue, gid, log, unhandled, hostErr, ghosts>>

GroupUngroupError ==
    /\ pc = "g_ungroup"
    /\ \E r \in inflight :
        /\ r.op = "ungroup"
        /\ GrouperCatch(inflight \ {r})
    /\ hostErr' = TRUE
    /\ UNCHANGED <<browser, url, ctl, stage, mres, dres, locals, unhandled,
                   moveErr, rmFailed, marked, dRead, grouped>>

GroupUngroupOk ==
    /\ pc = "g_ungroup"
    /\ \E r \in inflight :
        /\ r.op = "ungroup"
        /\ Range(r.tabs) \subseteq Tabs
        /\ groupOf' = [t \in DOMAIN groupOf |-> IF t \in Range(r.tabs) THEN 0 ELSE groupOf[t]]
        /\ title' = TitlesOf(groupOf', title)
        /\ GroupLoop(Tail(buckets), cur, inflight \ {r})
    /\ UNCHANGED <<wins, focused, nextGid, url, ctl, stage, mres, dres, cur,
                   queue, gid, log, unhandled, hostErr, ghosts>>

\* ------------------------------------------------------------------------
\* The click listener between its awaits.

\* await mergeAllWindows() returned: removeDuplicateTabs is called and asks
\* for the windows; or the rejection is caught and logged.
ListenerAfterMerge ==
    /\ entry = "click" /\ stage = "merge" /\ Settled(mres)
    /\ IF mres = "resolved"
       THEN /\ stage' = "dedup"
            /\ dres' = "pending"
            /\ pc' = "d_getAll"
            /\ inflight' = inflight \cup {GetAll}
            /\ log' = log
       ELSE /\ stage' = "caught"
            /\ log' = log \cup {"listener"}
            /\ UNCHANGED <<dres, pc, inflight>>
    /\ UNCHANGED <<browser, url, ctl, mres, gres, locals, unhandled, hostErr, ghosts>>

ListenerAfterDedup ==
    /\ entry = "click" /\ stage = "dedup" /\ Settled(dres)
    /\ IF dres = "resolved"
       THEN /\ stage' = "group"
            /\ gres' = "pending"
            /\ pc' = "g_getCurrent"
            /\ inflight' = inflight \cup {GetCurrent}
            /\ log' = log
       ELSE /\ stage' = "caught"
            /\ log' = log \cup {"listener"}
            /\ UNCHANGED <<gres, pc, inflight>>
    /\ UNCHANGED <<browser, url, ctl, mres, dres, locals, unhandled, hostErr, ghosts>>

ListenerAfterGroup ==
    /\ entry = "click" /\ stage = "group" /\ Settled(gres)
    /\ IF gres = "resolved"
       THEN /\ stage' = "done"
            /\ log' = log
       ELSE /\ stage' = "caught"
            /\ log' = log \cup {"listener"}
    /\ UNCHANGED <<browser, url, ctl, inflight, pc, results, locals, unhandled,
                   hostErr, ghosts>>

\* ------------------------------------------------------------------------

Init == InitWith(MaxTabs, BOOLEAN)

\* The listener, and groupTabsByDomain on its own.
Next ==
    \/ Click
    \/ InvokeGroupTabsByDomain
    \/ MergeGetCurrentError
    \/ MergeGetCurrentOk
    \/ MergeGetAllError
    \/ MergeGetAllOk
    \/ MergeMoveError
    \/ MergeMoveOk
    \/ ListenerAfterMerge
    \/ DedupGetAllError
    \/ DedupGetAllOk
    \/ DedupGetCurrentError
    \/ DedupGetCurrentOk
    \/ HostRemoveOk
    \/ HostRemoveError
    \/ ListenerAfterDedup
    \/ GroupGetCurrentError
    \/ GroupGetCurrentOk
    \/ GroupGroupError
    \/ GroupGroupOk
    \/ GroupTitleError
    \/ GroupTitleOk
    \/ GroupUngroupError
    \/ GroupUngroupOk
    \/ ListenerAfterGroup

Spec == Init /\ [][Next]_vars

\* removeDuplicateTabs on its own, from any windows, up to MaxRuns times in a row.
InitDedup == InitWith(MaxDedupTabs, {FALSE})

NextDedup ==
    \/ InvokeRemoveDuplicateTabs
    \/ DedupGetAllError
    \/ DedupGetAllOk
    \/ DedupGetCurrentError
    \/ DedupGetCurrentOk
    \/ HostRemoveOk
    \/ HostRemoveError

SpecDedup == InitDedup /\ [][NextDedup]_vars

\* Between two stages of the listener, the user opens a window: it has one
\* tab, at the new tab page, and it is the current window from then on. The
\* tabs ever opened are bounded.
UserOpensWindow ==
    /\ ListenerWaiting
    /\ \/ stage = "merge" /\ mres = "resolved"
       \/ stage = "dedup" /\ dres = "resolved"
    /\ Len(url) <= MaxTabs
    /\ \E w \in WinIds :
        /\ wins[w] = <<>>
        /\ \A v \in 1..(w - 1) : wins[v] # <<>>
        /\ wins' = [wins EXCEPT ![w] = <<Len(url) + 1>>]
        /\ focused' = w
    /\ url' = Append(url, NewTabUrl)
    /\ groupOf' = Append(groupOf, 0)
    /\ UNCHANGED <<title, nextGid, inflight, ctl, stage, pc, results, locals, log,
                   unhandled, hostErr, ghosts>>

\* The listener and groupTabsByDomain as in Spec, in a browser whose user
\* opens windows between the stages.
NextFocus ==
    \/ Next
    \/ UserOpensWindow

SpecFocus == Init /\ [][NextFocus]_vars

\* getDomainName on its own: one tab at any of DomainUrls, and the function
\* called with the tab's url.
InitDomain ==
    \E u \in DomainUrls :
        /\ wins = [w \in WinIds |-> IF w = 1 THEN <<1>> ELSE <<>>]
        /\ focused = 1
        /\ url = <<u>>
        /\ groupOf = <<0>>
        /\ title = <<>>
        /\ nextGid = 1
        /\ inflight = {}
        /\ entry = "none"
        /\ stage = "idle"
        /\ pc = "none"
        /\ mres = "none" /\ dres = "none" /\ gres = "none"
        /\ cur = 0 /\ queue = <<>> /\ buckets = <<>> /\ gid = 0
        /\ log = {}
        /\ unhandled = FALSE
        /\ runs = 0
        /\ hostErr = FALSE
        /\ moveErr = FALSE /\ rmFailed = FALSE /\ marked = {}
        /\ dRead = NoRead
        /\ grouped = {} /\ gErr = FALSE
        /\ prev = "none"
        /\ snap = [wins |-> [w \in WinIds |-> IF w = 1 THEN <<1>> ELSE <<>>],
                   focused |-> 1, groups |-> <<0>>, titles |-> <<>>]
        /\ domainCall = NoCall

CallGetDomainName ==
    /\ ~domainCall.done
    /\ domainCall' = [done |-> TRUE, result |-> getDomainName(url[1])]
    /\ UNCHANGED <<browser, url, inflight, entry, stage, pc, results, locals, log,
                   unhandled, runs, hostErr, ghosts, prev, snap>>

NextDomain == CallGetDomainName

SpecDomain == InitDomain /\ [][NextDomain]_vars

\* ------------------------------------------------------------------------
\* Properties.

RemovePending == \E r \in inflight : r.op = "remove"

\* The tabs of the windows other than the current one, window by window, as
\* they stood when the run started.
OtherTabsAtStart ==
    Flatten([w \in WinIds |-> IF w = snap.focused THEN <<>> ELSE snap.wins[w]])

MergeResolved == entry = "click" /\ stage = "merge" /\ mres = "resolved"

C2_MoveErrorRejects == moveErr => mres = "rejected"

\* C3: in a run of the listener, groupTabsByDomain puts in its buckets no tab
\* removeDuplicateTabs asked the browser to remove: the removal was applied
\* before the window was read.
C3_RemovalAppliedBeforeGrouping ==
    (entry = "click" /\ stage = "group") => grouped \cap marked = {}

\* The tabs of s at the first occurrence of each url that is not the new tab
\* page.
RECURSIVE FirstOccurrences(_, _)
FirstOccurrences(s, i) ==
    IF i > Len(s) THEN <<>>
    ELSE IF url[s[i]] # NewTabUrl /\ \A j \in 1..(i - 1) : url[s[j]] # url[s[i]]
         THEN <<s[i]>> \o FirstOccurrences(s, i + 1)
         ELSE FirstOccurrences(s, i + 1)

\* removeDuplicateTabs resolved after its scan, and the browser has applied
\* what it asked for.
ScanApplied == dres = "resolved" /\ dRead.scanned /\ ~RemovePending /\ ~rmFailed

OneWindowOfNewTabs ==
    /\ Len(dRead.windows) = 1
    /\ dRead.all # <<>>
    /\ \A i \in 1..Len(dRead.all) : url[dRead.all[i]] = NewTabUrl

C6_DedupIdempotent ==
    (entry = "dedup" /\ prev = "dedup" /\ dres = "resolved" /\ inflight = {} /\ ~hostErr)
        => Tabs = UNION {Range(snap.wins[w]) : w \in WinIds}

\* C7: removeDuplicateTabs has not resolved when the tabs.remove it made
\* failed.
C7_RemoveErrorRejects == rmFailed => dres # "resolved"

\* The property name of a tab's domain.
DomainKey(t) == PropertyKey(getDomainName(url[t]).value)

\* In the current window, the tabs of a domain with two tabs or more are the
\* members of a group with the domain for title, and the only tab of a
\* domain is in no group.
SingletonsUngrouped ==
    \A t \in Range(wins[focused]) :
        LET same == {x \in Range(wins[focused]) : DomainKey(x) = DomainKey(t)} IN
        IF Cardinality(same) >= 2
        THEN \E g \in DOMAIN title : title[g] = DomainKey(t) /\ Members(g) = same
        ELSE groupOf[t] = 0

\* C8: at the moment groupTabsByDomain returns, SingletonsUngrouped holds.
\* It is stated for the returns that follow no error, caught or reported by
\* the browser: the case in which the claim has most chances to hold.
C8_GroupsMatchDomains ==
    [][(gres # "resolved" /\ gres' = "resolved" /\ ~gErr' /\ ~hostErr')
           => SingletonsUngrouped']_vars

\* C9: after a run of the listener in which no request reported an error and
\* nothing was caught, once every request is handled, every group has two
\* tabs or more.
C9_GroupsHaveTwoTabs ==
    (entry = "click" /\ stage = "done" /\ inflight = {} /\ ~hostErr /\ ~gErr)
        => \A g \in Groups(groupOf) : Cardinality(Members(g)) >= 2

\* C10: groupTabsByDomain's promise is never rejected; once it has caught an
\* error (of a request, or thrown by getDomainName) the error is logged, the
\* promise is resolved, no request of the stage is in flight or made any
\* more, and the listener goes on to its end.
C10_GrouperAbsorbsErrors ==
    /\ gres # "rejected"
    /\ gErr =>
        /\ gres = "resolved"
        /\ "groupTabsByDomain" \in log
        /\ Awaited = {}
        /\ pc = "none"
        /\ entry = "click" => stage \in {"group", "done"}

\* An error caught with two buckets still to visit.
C10_Witness ==
    /\ gErr
    /\ hostErr
    /\ gres = "resolved"
    /\ Len(buckets) >= 2

\* The listener's run has nothing left to wait for: no callback is awaited,
\* no request is with the browser, and no settled promise is still to be
\* taken up by the listener.
RunAtRest == entry = "click" /\ pc = "none" /\ inflight = {} /\ ~ListenerWaiting

\* C11: in a run of the listener that has come to rest, an error reported to
\* mergeAllWindows (by getCurrent, getAll or a tabs.move) was logged by the
\* listener and neither later stage was started; an error reported to
\* removeDuplicateTabs (by getAll, getCurrent or the tabs.remove) was logged
\* by the listener and groupTabsByDomain was not started.
C11_StageErrorStopsRunAndIsLogged ==
    RunAtRest =>
        /\ (moveErr \/ mres = "rejected")
               => ("listener" \in log /\ dres = "none" /\ gres = "none")
        /\ (rmFailed \/ dres = "rejected")
               => ("listener" \in log /\ gres = "none")

\* C12: a run of the listener comes to rest only at its end, with the three
\* stages done or the failure caught and logged, and with no rejection left
\* unhandled.
C12_RunEndsDoneOrCaught ==
    RunAtRest =>
        /\ stage \in {"done", "caught"}
        /\ stage = "caught" => "listener" \in log
        /\ ~unhandled

\* A label with its first letter in upper case.
Capitalized(label) == <<ToUpperCase(Head(label))>> \o Tail(label)

\* getDomainName was called with a string that parses, is not a chrome://
\* url and whose hostname is not a dotted quad.
OrdinaryHostCalled ==
    /\ domainCall.done
    /\ url[1].t = "string"
    /\ ~StartsWithChrome(url[1])
    /\ Parses(url[1])
    /\ ~IsDottedQuad(url[1].host)

\* C13: called with such a url, getDomainName returns the label before the
\* last with its first letter in upper case, or the one before that when the
\* label before the last is one of co, com, gov, net, edu, org; and it
\* returns the same for the url with any number of leading labels taken off
\* the hostname.
C13_LabelBeforeTheSuffix ==
    OrdinaryHostCalled =>
        LET host == url[1].host
            n == Len(host)
        IN  /\ n >= 2
            /\ IF host[n - 1] \in secondLevelDomains
               THEN /\ n >= 3
                    /\ domainCall.result = Returned(Str(Capitalized(host[n - 2])))
               ELSE domainCall.result = Returned(Str(Capitalized(host[n - 1])))
            /\ \A k \in 1..(n - 1) :
                   LET shorter == SubSeq(host, k + 1, n) IN
                   ~IsDottedQuad(shorter)
                       => getDomainName(Url(url[1].scheme, shorter, url[1].path))
                              = domainCall.result

\* C14: called with a string that parses, getDomainName returns a string.
C14_ReturnsAString ==
    (domainCall.done /\ url[1].t = "string" /\ Parses(url[1]))
        => (~domainCall.result.thrown /\ domainCall.result.value.t = "string")

MovesInFlight == {r \in inflight : r.op = "move"}

\* C15: at most one tabs.move is in flight; the one in flight is for the
\* tab the loops are at, and by then every tab before it (other windows in
\* getAll order, each in tab order) has been moved to the end of the
\* current window: its move was answered.
C15_OneMoveAtATime ==
    /\ Cardinality(MovesInFlight) <= 1
    /\ \A r \in MovesInFlight :
        /\ pc = "m_move"
        /\ r.win = snap.focused
        /\ \E k \in 1..Len(OtherTabsAtStart) :
            /\ r.tabs = <<OtherTabsAtStart[k]>>
            /\ wins[r.win] = snap.wins[snap.focused] \o SubSeq(OtherTabsAtStart, 1, k - 1)

\* The move of the second tab is in flight, the first tab is in the current
\* window.
C15_Witness ==
    /\ Len(OtherTabsAtStart) >= 2
    /\ \E r \in MovesInFlight : r.tabs = <<OtherTabsAtStart[2]>>
    /\ OtherTabsAtStart[1] \in Range(wins[snap.focused])

\* C16: once a tabs.move has reported an error, no move is in flight and
\* mergeAllWindows waits for nothing more; some tabs (maybe none, never all)
\* of the other windows, the first ones in the loops' order, are at the end
\* of the current window in that order, and every other tab is in the window
\* it was in, in the order it was in.
C16_FailedMoveStopsTheLoop ==
    moveErr =>
        /\ MovesInFlight = {}
        /\ pc = "none"
        /\ dres = "none" /\ gres = "none"
        /\ \E moved \in 0..(Len(OtherTabsAtStart) - 1) :
            LET before == SubSeq(OtherTabsAtStart, 1, moved) IN
            /\ wins[snap.focused] = snap.wins[snap.focused] \o before
            /\ \A w \in WinIds \ {snap.focused} :
                   wins[w] = Without(snap.wins[w], Range(before))

\* The move of the second tab failed after the first was moved, with a tab
\* moved and a tab left where it was.
C16_Witness ==
    /\ moveErr
    /\ Len(OtherTabsAtStart) >= 2
    /\ OtherTabsAtStart[1] \in Range(wins[snap.focused])
    /\ OtherTabsAtStart[2] \notin Range(wins[snap.focused])

\* C17: in a run of the listener, the window removeDuplicateTabs scanned and
\* the window groupTabsByDomain read are the window that was current when
\* the run started, the one mergeAllWindows moved the tabs to.
C17_StagesUseTheTargetWindow ==
    entry = "click" =>
        /\ dRead.scanned => dRead.win = snap.focused
        /\ (stage \in {"group", "done"} /\ pc # "g_getCurrent") => cur = snap.focused

\* C18: once removeDuplicateTabs has resolved and its removal is applied,
\* the window it examined (the current window it scanned, or the only
\* window when all tabs are new tabs) still holds a tab.
C18_ExaminedWindowKeepsATab ==
    (dres = "resolved" /\ ~RemovePending /\ ~rmFailed) =>
        IF dRead.scanned
        THEN wins[dRead.win] # <<>>
        ELSE wins[Head(dRead.windows)] # <<>>

\* groupTabsByDomain has read its window, and a tab of that window has a url
\* getDomainName throws for.
ReadWindowWithThrowingTab ==
    /\ gres # "none"
    /\ pc # "g_getCurrent"
    /\ cur # 0
    /\ \E t \in Range(wins[cur]) : getDomainName(url[t]).thrown

GrouperRequests == {r \in inflight : r.op \in {"group", "update", "ungroup"}}

\* C19: when a tab of the window groupTabsByDomain read has a url
\* getDomainName throws for, the function has made no tabs.group,
\* tabGroups.update or tabs.ungroup request and waits for none: it has
\* caught and logged the error and returned; called on its own, it leaves
\* every tab in the group it was in, and the groups' titles and number as
\* they were.
C19_ThrowingScanChangesNoGroup ==
    ReadWindowWithThrowingTab =>
        /\ GrouperRequests = {}
        /\ pc = "none"
        /\ gres = "resolved"
        /\ gErr /\ "groupTabsByDomain" \in log
        /\ entry = "group" =>
               /\ groupOf = snap.groups
               /\ title = snap.titles
               /\ nextGid \notin Groups(groupOf)

\* The throwing tab is the last of three tabs that were in a group, and
\* they still are.
C19_Witness ==
    /\ ReadWindowWithThrowingTab
    /\ entry = "group"
    /\ Len(wins[cur]) = MaxTabs
    /\ ~getDomainName(url[wins[cur][1]]).thrown
    /\ \A t \in Range(wins[cur]) : groupOf[t] = 1

====
